---- MODULE Spec2Model ----
(***************************************************************************)
(* AlexNet-Visualization backend: the AlexNetVisualizer wrapper            *)
(* (backend/model.py), the FastAPI request handlers (backend/main.py) and  *)
(* the rendering helpers (backend/utils.py).                               *)
(*                                                                         *)
(* The pretrained network is a black box.  One forward evaluation is a     *)
(* walk over the hooked stages in execution order; every hooked stage      *)
(* fires the activation hook the wrapper registered for it.  Tensors are   *)
(* records [call, content, val]: the evaluation that produced the buffer,  *)
(* the stage whose output the buffer currently holds, and (for conv5) the  *)
(* numeric map.  Reals are modelled exactly as integer numerators over a   *)
(* stated common denominator; floating-point rounding is not modelled.     *)
(***************************************************************************)
EXTENDS Integers, Sequences, FiniteSets, TLC

(***************************************************************************)
(* Bounds                                                                  *)
(***************************************************************************)
NumHandlers == 2   \* requests that can be open at the same time
MaxRequests == 2   \* requests accepted in one behaviour
NumClasses  == 6   \* classes of the output layer (1000 in the real network)
MaxLogit    == 1   \* logits range over 0..MaxLogit
MaxSwitches == 1   \* preemptions among threads calling the wrapper directly
MaxLists    == 2   \* calls of get_all_layer_names() in one behaviour
CamChannels == 1   \* channels of the conv5 map (256 in the real network)
CamW        == 3   \* spatial positions of the conv5 map (13x13 in the real network)
MaxChannels == 18  \* channels of a map handed to feature_maps_to_grid
MaxTile     == 2   \* height and width of one feature map in the grid
MaxDim      == 10  \* image width, height and max_size of the preview resize
MaxText     == 4   \* characters of a text handed to base64_to_pil
MaxVal      == 3   \* entries of a map handed to tensor_to_image: -MaxVal..MaxVal

(***************************************************************************)
(* Program constants                                                       *)
(***************************************************************************)
TopK      == 5     \* torch.topk(probabilities, 5)
InputSize == 224   \* interpolate(cam, size=(224, 224))

Handlers  == 1..NumHandlers
Classes   == 0..(NumClasses - 1)
NoHandler == 0

(***************************************************************************)
(* Static tables of the wrapper                                            *)
(***************************************************************************)

\* AlexNetVisualizer.LAYER_INFO: stage name -> the descriptor's 'name' field.
LAYER_INFO ==
    [conv1 |-> "Convolution Layer 1", relu1 |-> "ReLU Activation 1",
     pool1 |-> "Max Pooling 1",
     conv2 |-> "Convolution Layer 2", relu2 |-> "ReLU Activation 2",
     pool2 |-> "Max Pooling 2",
     conv3 |-> "Convolution Layer 3", relu3 |-> "ReLU Activation 3",
     conv4 |-> "Convolution Layer 4", relu4 |-> "ReLU Activation 4",
     conv5 |-> "Convolution Layer 5", relu5 |-> "ReLU Activation 5",
     pool5 |-> "Max Pooling 3",
     flatten |-> "Flatten",
     fc6 |-> "Fully Connected Layer 1", relu6 |-> "ReLU Activation 6",
     fc7 |-> "Fully Connected Layer 2", relu7 |-> "ReLU Activation 7",
     fc8 |-> "Output Layer", softmax |-> "Softmax"]

\* get_all_layer_names(): a fresh list literal on every call.
get_all_layer_names ==
    << "conv1", "relu1", "pool1",
       "conv2", "relu2", "pool2",
       "conv3", "relu3",
       "conv4", "relu4",
       "conv5", "relu5", "pool5",
       "fc6", "relu6",
       "fc7", "relu7",
       "fc8", "softmax" >>

Range(s) == { s[i] : i \in DOMAIN s }

LayerNames == Range(get_all_layer_names)

\* _register_hooks: the hooked modules in the order the forward pass runs
\* them (features 0..12, avgpool, classifier 1, 2, 4, 5, 6), each with the
\* name its activation hook writes under.
HookedStages ==
    << "conv1", "relu1", "pool1",
       "conv2", "relu2", "pool2",
       "conv3", "relu3",
       "conv4", "relu4",
       "conv5", "relu5", "pool5",
       "avgpool",
       "fc6", "relu6",
       "fc7", "relu7",
       "fc8" >>

HookNames == Range(HookedStages)

\* get_architecture(): the activation stages the service describes as
\* "inplace", each with the stage whose output buffer it overwrites.
InplaceOf ==
    [relu1 |-> "conv1", relu2 |-> "conv2", relu3 |-> "conv3",
     relu4 |-> "conv4", relu5 |-> "conv5", relu6 |-> "fc6", relu7 |-> "fc7"]

\* get_filter_weights: layer_map, stage name -> index into model.features.
layer_map == [conv1 |-> 0, conv2 |-> 3, conv3 |-> 6, conv4 |-> 8, conv5 |-> 10]

\* Strings a caller may pass as a stage name.
Names == LayerNames \cup HookNames \cup DOMAIN LAYER_INFO \cup {"dropout", "bogus"}

\* A Python dict is a sequence of <<key, value>> pairs; {} and None are <<>>.
Empty == << >>

\* Faulty variant: descriptors only for the names get_all_layer_names() lists.
get_layer_info_listed_only(layer_name) ==
    IF layer_name \in LayerNames
    THEN << <<"name", LAYER_INFO[layer_name]>> >>
    ELSE Empty

\* AlexNetVisualizer.get_layer_info: self.LAYER_INFO.get(layer_name, {}).
get_layer_info(layer_name) ==
    IF layer_name \in DOMAIN LAYER_INFO
    THEN << <<"name", LAYER_INFO[layer_name]>> >>
    ELSE Empty

\* AlexNetVisualizer.get_filter_weights: None for a name outside layer_map,
\* else the weight of model.features[layer_map[name]].
get_filter_weights(layer_name) ==
    IF layer_name \notin DOMAIN layer_map
    THEN Empty
    ELSE << <<"features", layer_map[layer_name]>> >>


(***************************************************************************)
(* Tensors and the numeric post-processing of predict                      *)
(***************************************************************************)

Channels  == 1..CamChannels
Positions == 1..CamW

\* A tensor buffer: the evaluation that allocated it, the stage whose
\* output it holds now, and its numeric map (kept for conv5 only).
Tensor(c, stage, v) == [call |-> c, content |-> stage, val |-> v]

Absent == Tensor(0, "", << >>)

Max(a, b) == IF a >= b THEN a ELSE b
Min(a, b) == IF a <= b THEN a ELSE b

RECURSIVE SumSeq(_)
SumSeq(s) == IF s = << >> THEN 0 ELSE Head(s) + SumSeq(Tail(s))

RECURSIVE Pow2(_)
Pow2(n) == IF n <= 0 THEN 1 ELSE 2 * Pow2(n - 1)

\* torch.relu on a channels-by-positions map (<< >> when the map is not kept).
Relu(v) == [c \in DOMAIN v |-> [p \in DOMAIN v[c] |-> Max(0, v[c][p])]]

\* torch.nn.functional.softmax(output[0], dim=0): exp(z_i) / sum_j exp(z_j),
\* as numerators over one denominator.  The base of the exponential is 2
\* instead of e, which keeps it positive and strictly increasing.
softmax(output) ==
    [num |-> [i \in DOMAIN output |-> Pow2(output[i])],
     den |-> SumSeq([i \in DOMAIN output |-> Pow2(output[i])])]

\* torch.topk leaves the order of equal values to the implementation.
TiePolicies == {"first", "last"}

Beats(p, i, j, pol) ==
    \/ p[i] > p[j]
    \/ p[i] = p[j] /\ (IF pol = "first" THEN i <= j ELSE i >= j)

RECURSIVE Select(_, _, _, _)
Select(p, S, k, pol) ==
    IF k = 0 \/ S = {} THEN << >>
    ELSE LET b == CHOOSE i \in S : \A j \in S : Beats(p, i, j, pol)
         IN  <<b>> \o Select(p, S \ {b}, k - 1, pol)

\* Faulty variant: the k smallest values instead of the k largest.
topk_smallest(p, k, pol) ==
    Select([i \in DOMAIN p |-> 0 - p[i]], DOMAIN p, k, pol)

\* torch.topk(probabilities, 5): the indices (1-based here) of the k largest
\* values, largest first.
topk(p, k, pol) == Select(p, DOMAIN p, k, pol)

\* _load_imagenet_labels: the fallback list class_0 .. class_999, or the
\* downloaded list, one label per class.
FallbackLabels == [i \in 1..NumClasses |-> <<"class_", i - 1>>]
LoadedLabels   == [i \in 1..NumClasses |-> <<"imagenet", i - 1>>]

\* How the download in _load_imagenet_labels can end: the lines arrive, or
\* urlopen raises (URLError), or decoding a line raises (UnicodeDecodeError).
LoadOutcomes == {"ok", "URLError", "UnicodeDecodeError"}

\* Faulty variant: a failed download leaves the wrapper without labels.
load_imagenet_labels_no_fallback(outcome) ==
    IF outcome = "ok" THEN LoadedLabels ELSE << >>

\* _load_imagenet_labels: the downloaded lines, or on any Exception the list
\* [f"class_{i}" for i in range(1000)].
load_imagenet_labels(outcome) ==
    IF outcome = "ok" THEN LoadedLabels ELSE FallbackLabels

\* predict, lines 303-316: softmax, top-5, the label pairs and the best
\* class.  Class index idx is position idx + 1 of output and of labels.
PredictResult(output, lbls, pol) ==
    LET probabilities == softmax(output)
        top5_idx      == topk(probabilities.num, TopK, pol)
        top5_predictions ==
            [n \in DOMAIN top5_idx |->
                [label |-> lbls[top5_idx[n]],
                 idx   |-> top5_idx[n] - 1,
                 prob  |-> probabilities.num[top5_idx[n]]]]
    IN  [best |-> lbls[top5_idx[1]],
         top5 |-> top5_predictions,
         den  |-> probabilities.den,
         probs |-> probabilities.num]


(***************************************************************************)
(* The numeric steps of compute_gradcam.  A map is a sequence over         *)
(* Channels of sequences over Positions; the saliency map is one sequence  *)
(* over Positions (one spatial row: the resize is separable and treats the *)
(* second axis the same way).                                              *)
(***************************************************************************)

\* gradient.mean(dim=(2, 3)): per channel, the sum over the positions; the
\* mean is this sum over CamW.
ChannelWeights(gradient) ==
    [c \in DOMAIN gradient |-> SumSeq(gradient[c])]

\* Faulty variant: the weighted sum without the clamp at zero.
WeightedCam_no_clamp(weights, activation) ==
    [p \in Positions |->
        SumSeq([c \in DOMAIN activation |-> weights[c] * activation[c][p]])]

\* (weights * activation).sum(dim=1) followed by torch.relu, in units of
\* 1/CamW.
WeightedCam(weights, activation) ==
    [p \in Positions |->
        Max(0, SumSeq([c \in DOMAIN activation |->
                            weights[c] * activation[c][p]]))]

RECURSIVE MaxSeq(_)
MaxSeq(s) == IF Len(s) = 1 THEN s[1] ELSE Max(Head(s), MaxSeq(Tail(s)))

RECURSIVE MinSeq(_)
MinSeq(s) == IF Len(s) = 1 THEN s[1] ELSE Min(Head(s), MinSeq(Tail(s)))

\* Faulty variant: the division by the maximum without the preceding subtraction
\* of the minimum.
NormalizeCam_no_shift(cam) ==
    [num |-> cam, den |-> Max(1, MaxSeq(cam))]

\* cam = cam - cam.min(); if cam.max() > 0: cam = cam / cam.max().
\* The result is num[p] / den.
NormalizeCam(cam) ==
    LET shifted == [p \in DOMAIN cam |-> cam[p] - MinSeq(cam)]
    IN  IF MaxSeq(shifted) > 0
        THEN [num |-> shifted, den |-> MaxSeq(shifted)]
        ELSE [num |-> shifted, den |-> 1]

\* One output sample of interpolate(mode='bilinear', align_corners=False)
\* along one axis: output index i (0-based) of n_out reads the source at
\* (i + 1/2) * n_in / n_out - 1/2, clamped at 0, and blends the two
\* neighbouring source samples.  The result is in units of 1/(2 * n_out).
InterpolateAt(x, n_out, i) ==
    LET n_in == Len(x)
        s    == Max(0, (2 * i + 1) * n_in - n_out)
        i0   == Min(s \div (2 * n_out), n_in - 1)
        i1   == Min(i0 + 1, n_in - 1)
        lam  == IF i0 = n_in - 1 THEN 0 ELSE s % (2 * n_out)
    IN  (2 * n_out - lam) * x[i0 + 1] + lam * x[i1 + 1]

\* torch.nn.functional.interpolate(cam, size=(224, 224), mode='bilinear',
\* align_corners=False) on the normalized map.
Interpolate(norm, n_out) ==
    [num |-> [k \in 1..n_out |-> InterpolateAt(norm.num, n_out, k - 1)],
     den |-> norm.den * 2 * n_out]

\* compute_gradcam, lines 356-376: from the captured gradient and the
\* conv5 snapshot entry to the returned heatmap.
GradCam(gradient, activation) ==
    Interpolate(NormalizeCam(WeightedCam(ChannelWeights(gradient), activation)),
                InputSize)


(***************************************************************************)
(* State                                                                   *)
(***************************************************************************)
VARIABLES
    instance,     \* model.py _model_instance: number of wrappers constructed (0 = None)
    labels,       \* self.labels
    fwdHooks,     \* forward hooks registered on the network, per name
    bwdHooks,     \* evaluations whose backward hook on features[10] is still attached
    activations,  \* self.activations: name -> tensor (Absent = no such key)
    calls,        \* evaluations started on the instance
    accepted,     \* requests accepted so far
    loop,         \* the handler the event loop is running (NoHandler = idle)
    serial,       \* TRUE: callers are the handlers of main.py, on one event loop
    switches,     \* threads only: times a running caller was preempted by another
    loadResult,   \* how the download of the label list ended ("" = not attempted)
    req,          \* per handler: the open request and its local variables
    fn            \* the pure functions, applied to drawn inputs

vars == << instance, labels, fwdHooks, bwdHooks, activations, calls, accepted,
           loop, serial, switches, loadResult, req, fn >>

\* Inputs of the evaluation steps in the service model: a conv5 map with a
\* peak at one position over a negative floor, gradients of either sign,
\* logits without ties for the first and the last class, and logits whose
\* largest value is shared by the last two classes.
SampleActs ==
    { [c \in Channels |-> [p \in Positions |-> IF p = 2 THEN 1 ELSE 0 - 1]] }

SampleGrads == { [c \in Channels |-> [p \in Positions |-> s]] : s \in {-1, 1} }

SampleLogits ==
    { [i \in 1..NumClasses |-> ((i - 1 + k) % NumClasses)] : k \in {0, 1} }
    \cup { [i \in 1..NumClasses |-> Min(i, NumClasses - 1)] }

\* target_class values a request may carry; {} is None.
TargetClasses == { {} } \cup { {t} : t \in {-1, 0, NumClasses - 1, NumClasses} }

Endpoints == {"layer_info", "filters", "predict", "predict_b64", "activations",
              "gradcam", "gradcam_b64"}

PredictEndpoints == {"predict", "predict_b64", "activations"}
GradcamEndpoints == {"gradcam", "gradcam_b64"}
Base64Endpoints  == {"predict_b64", "gradcam_b64"}

NoSnapshot == [n \in HookNames |-> Absent]

NoHeat == [num |-> << >>, den |-> 1]

\* What a model call returned to the handler (kind "" = nothing yet).
NoReturn == [kind |-> "", best |-> << >>, top5 |-> << >>, den |-> 1,
             snap |-> NoSnapshot, cam |-> << >>, heat |-> NoHeat, used |-> {}]

NoResponse == [status |-> 0, detail |-> << >>]

IdleRequest ==
    [pc |-> "idle", ep |-> "", image |-> "", name |-> "", arg |-> {}, tc |-> {},
     call |-> 0, ncalls |-> 0, over |-> FALSE, at |-> 0, x |-> Absent,
     output |-> << >>,
     gradients |-> << >>, ret |-> NoReturn, raised |-> "", raisedIn |-> "",
     resp |-> NoResponse]

FnOff == [pc |-> "off"]

Keys(acts) == { n \in DOMAIN acts : acts[n] # Absent }

(***************************************************************************)
(* Exceptions and the handlers' except clauses                             *)
(***************************************************************************)
HTTPException(status, detail) ==
    [kind |-> "HTTPException", status |-> status, msg |-> detail]

Failure(msg) == [kind |-> "Exception", status |-> 0, msg |-> msg]

StatusText(status) ==
    CASE status = 400 -> "400" [] status = 404 -> "404" [] OTHER -> "500"

\* str(e): the message of an ordinary exception; "<status>: <detail>" for an
\* HTTPException.
Str(e) ==
    IF e.kind = "HTTPException" THEN << StatusText(e.status), e.msg >>
    ELSE << e.msg >>

\* The handlers with an "except HTTPException: raise" clause before
\* "except Exception"; get_layer_info has no try block at all.
ReraisesHTTP == {"activations", "filters", "layer_info"}

\* Faulty variant: a handler that swallows the failure and answers 200.
Catch_swallow(ep, e) ==
    IF e.kind = "HTTPException" /\ ep \in ReraisesHTTP
    THEN [status |-> e.status, detail |-> << e.msg >>]
    ELSE [status |-> 200, detail |-> << >>]

\* Faulty variant: the HTTPException is converted to 500 like every other exception.
Catch_no_reraise(ep, e) == [status |-> 500, detail |-> Str(e)]

\* The response a handler's except clauses make of an exception raised in
\* its body: HTTPException(status_code=500, detail=str(e)), unless the
\* handler re-raises HTTPExceptions.
Catch(ep, e) ==
    IF e.kind = "HTTPException" /\ ep \in ReraisesHTTP
    THEN [status |-> e.status, detail |-> << e.msg >>]
    ELSE [status |-> 500, detail |-> Str(e)]


(***************************************************************************)
(* Scheduling of the handlers                                              *)
(***************************************************************************)

\* Faulty variant: the model call is awaited (run in a worker thread), so the
\* handler is suspended while its evaluation is in progress.
AwaitPoints_threadpool == {"read", "forward"}

\* Where an "async def" handler of main.py is suspended and the event loop
\* may run another handler: while the request body is read
\* (await file.read()).  The model calls are plain blocking calls.
AwaitPoints == {"read"}

\* Handler h may take its next step: it is the coroutine the loop is
\* running, or the loop is idle and h is suspended at an await.
MayStep(h) ==
    IF serial
    THEN loop = h \/ (loop = NoHandler /\ req[h].pc \in AwaitPoints)
    ELSE loop \in {h, NoHandler} \/ switches < MaxSwitches

\* Handler h moves to the local state r.  Among threads, loop is the
\* caller that ran last, and a step of another caller preempts it.
Step(h, r) ==
    /\ req' = [req EXCEPT ![h] = r]
    /\ loop' = IF serial
               THEN (IF r.pc \notin AwaitPoints THEN h ELSE NoHandler)
               ELSE h
    /\ switches' = IF ~serial /\ loop \notin {h, NoHandler}
                   THEN switches + 1 ELSE switches

\* An exception e raised in the body of handler h, from the handler's own
\* code or from the model call ("where"), reaches the except clauses.
Raise(h, e, where) ==
    Step(h, [req[h] EXCEPT !.pc = "done", !.raised = e.msg,
                           !.raisedIn = where, !.resp = Catch(req[h].ep, e)])

EvalPcs == {"preprocess", "attach", "forward", "post", "cam"}

InFlight == { h \in Handlers : req[h].pc \in EvalPcs }

\* Another evaluation on the instance is in progress when h enters its own.
Overlaps(h) == InFlight \ {h} # {}

(***************************************************************************)
(* Construction                                                            *)
(***************************************************************************)

\* AlexNetVisualizer.__init__: empty mappings, one forward hook per hooked
\* stage, the label list (downloaded, or the fallback when that fails).
Construct ==
    /\ instance' = instance + 1
    /\ activations' = NoSnapshot
    /\ fwdHooks' = [n \in HookNames |-> fwdHooks[n] + 1]
    /\ \E outcome \in LoadOutcomes :
         /\ loadResult' = outcome
         /\ labels' = load_imagenet_labels(outcome)

\* Faulty variant: a new wrapper for every call of get_model().
get_model_per_call == Construct

\* get_model(): construct the wrapper when _model_instance is None.
get_model ==
    IF instance = 0
    THEN Construct
    ELSE UNCHANGED << instance, activations, fwdHooks, labels, loadResult >>

\* startup_event: get_model() before the first request is served.
Startup ==
    /\ instance = 0
    /\ fn = FnOff
    /\ get_model
    /\ UNCHANGED << bwdHooks, calls, accepted, loop, serial, switches, req, fn >>

(***************************************************************************)
(* The request handlers of main.py                                         *)
(***************************************************************************)

\* A request arrives and waits until its body is read (for the upload
\* handlers this is "await file.read()").  Free handler slots are taken
\* lowest first.
Accept(h) ==
    /\ instance > 0
    /\ loop = NoHandler
    /\ req[h].pc = "idle"
    /\ \A g \in Handlers : g < h => req[g].pc # "idle"
    /\ accepted < MaxRequests
    /\ accepted' = accepted + 1
    /\ Step(h, [IdleRequest EXCEPT !.pc = "read"])
    /\ UNCHANGED << instance, labels, fwdHooks, bwdHooks, activations, calls,
                    serial, loadResult, fn >>

\* The body is there and the handler for the request's route goes on: the
\* image endpoints decode the image, and the base64 handlers first reject
\* a body without an image.
Open(h) ==
    /\ MayStep(h)
    /\ req[h].pc = "read"
    /\ \E ep \in Endpoints :
         LET r == [req[h] EXCEPT !.ep = ep] IN
         \/ /\ ep \in {"layer_info", "filters"}
            /\ Step(h, [r EXCEPT !.pc = "get_model"])
         \/ /\ ep \in Base64Endpoints
            /\ Step(h, [r EXCEPT !.pc = "done", !.image = "missing",
                           !.raised = "No image provided", !.raisedIn = "handler",
                           !.resp = Catch(ep, HTTPException(400, "No image provided"))])
         \/ /\ ep \notin {"layer_info", "filters"}
            /\ Step(h, [r EXCEPT !.pc = "done", !.image = "corrupt",
                           !.raised = "cannot identify image file",
                           !.raisedIn = "handler",
                           !.resp = Catch(ep, Failure("cannot identify image file"))])
         \/ /\ ep \notin {"layer_info", "filters"}
            /\ Step(h, [r EXCEPT !.pc = "get_model", !.image = "ok"])
    /\ UNCHANGED << instance, labels, fwdHooks, bwdHooks, activations, calls,
                    accepted, serial, loadResult, fn >>

\* model = get_model()
GetModel(h) ==
    /\ MayStep(h)
    /\ req[h].pc = "get_model"
    /\ get_model
    /\ Step(h, [req[h] EXCEPT !.pc = IF req[h].ep \in {"layer_info", "filters"}
                                      THEN "lookup" ELSE "call"])
    /\ UNCHANGED << bwdHooks, calls, accepted, serial, fn >>

\* GET /layers/{layer_name}: 404 when the descriptor is empty.
LayerInfo(h) ==
    /\ MayStep(h)
    /\ req[h].pc = "lookup"
    /\ req[h].ep = "layer_info"
    /\ \E name \in Names :
         LET r == [req[h] EXCEPT !.name = name] IN
         IF get_layer_info(name) = Empty
         THEN Step(h, [r EXCEPT !.pc = "done",
                                !.resp = Catch(r.ep, HTTPException(404, "Layer not found"))])
         ELSE Step(h, [r EXCEPT !.pc = "done",
                                !.resp = [status |-> 200, detail |-> get_layer_info(name)]])
    /\ UNCHANGED << instance, labels, fwdHooks, bwdHooks, activations, calls,
                    accepted, serial, loadResult, fn >>

\* GET /filters/{layer_name}: 404 when get_filter_weights returns None.
FilterWeights(h) ==
    /\ MayStep(h)
    /\ req[h].pc = "lookup"
    /\ req[h].ep = "filters"
    /\ \E name \in Names :
         LET r == [req[h] EXCEPT !.name = name]
             weights == get_filter_weights(name)
         IN  IF weights = Empty
             THEN Step(h, [r EXCEPT !.pc = "done",
                                    !.resp = Catch(r.ep,
                                        HTTPException(404, "not a convolutional layer"))])
             ELSE Step(h, [r EXCEPT !.pc = "done",
                                    !.resp = [status |-> 200, detail |-> weights]])
    /\ UNCHANGED << instance, labels, fwdHooks, bwdHooks, activations, calls,
                    accepted, serial, loadResult, fn >>


(***************************************************************************)
(* AlexNetVisualizer.predict and compute_gradcam, step by step             *)
(***************************************************************************)

\* Faulty variant: the mapping is not emptied at the start of a call.
ClearActivations_keep(acts) == acts

\* self.activations.clear()
ClearActivations(acts) == [n \in DOMAIN acts |-> Absent]

\* Faulty variant: a hook that stores nothing.
ActivationHook_lost(acts, name, output) == acts

\* _get_activation_hook(name): self.activations[name] = output.detach().
\* detach() shares the buffer with the stage's output.
ActivationHook(acts, name, output) == [acts EXCEPT ![name] = output]

\* The stages at whose entry the forward pass is allowed to fail here.
FailStages == {"relu5"}

\* The output of hooked stage `name` in evaluation c, given the tensor x
\* flowing into it: an in-place activation returns its input buffer,
\* rectified; any other stage allocates a new buffer (with the map v).
StageOutput(c, name, x, v) ==
    IF name \in DOMAIN InplaceOf THEN Tensor(x.call, name, Relu(x.val))
    ELSE Tensor(c, name, v)

\* The mapping after stage `name` ran: an in-place stage changes every
\* entry that shares the buffer it overwrites; then the stage's hook fires.
AfterStage(acts, c, name, x, v) ==
    LET shared == [n \in DOMAIN acts |->
                     IF /\ name \in DOMAIN InplaceOf
                        /\ acts[n] # Absent
                        /\ acts[n] = x
                     THEN StageOutput(c, name, x, v) ELSE acts[n]]
    IN  ActivationHook(shared, name, StageOutput(c, name, x, v))

\* output.argmax(dim=1).item(): the class index (0-based) of the first
\* largest logit.
ArgMax(output) ==
    (CHOOSE i \in DOMAIN output :
        \A j \in DOMAIN output :
            output[i] > output[j] \/ (output[i] = output[j] /\ i <= j)) - 1

\* The backward hooks left attached when call c raises after attaching its
\* own: compute_gradcam has no try/finally around handle.remove().
LeakedOnRaise(hooks, c) == hooks

\* A model call of handler h raises e.
ModelRaise(h, e) ==
    /\ Raise(h, e, "model")
    /\ bwdHooks' = LeakedOnRaise(bwdHooks, req[h].call)

\* Entry of predict / compute_gradcam: the clear.
Call(h) ==
    /\ MayStep(h)
    /\ req[h].pc = "call"
    /\ calls' = calls + 1
    /\ activations' = ClearActivations(activations)
    /\ Step(h, [req[h] EXCEPT !.pc = "preprocess", !.call = calls + 1,
                              !.ncalls = @ + 1, !.over = Overlaps(h)])
    /\ UNCHANGED << instance, labels, fwdHooks, bwdHooks, accepted, serial, loadResult, fn >>

\* input_tensor = self.preprocess_image(image): may raise.
Preprocess(h) ==
    /\ MayStep(h)
    /\ req[h].pc = "preprocess"
    /\ \/ /\ Step(h, [req[h] EXCEPT
                 !.pc = IF req[h].ep \in GradcamEndpoints THEN "attach" ELSE "forward",
                 !.at = 1, !.x = Tensor(req[h].call, "input", << >>)])
          /\ UNCHANGED bwdHooks
       \/ ModelRaise(h, Failure("preprocess failed"))
    /\ UNCHANGED << instance, labels, fwdHooks, activations, calls, accepted,
                    serial, loadResult, fn >>

\* handle = target_layer.register_backward_hook(save_gradient)
Attach(h) ==
    /\ MayStep(h)
    /\ req[h].pc = "attach"
    /\ bwdHooks' = bwdHooks \cup {req[h].call}
    /\ Step(h, [req[h] EXCEPT !.pc = "forward"])
    /\ UNCHANGED << instance, labels, fwdHooks, activations, calls, accepted,
                    serial, loadResult, fn >>

\* output = self.model(input_tensor): the next hooked stage runs and its
\* hook fires, or the evaluation raises.
Forward(h) ==
    /\ MayStep(h)
    /\ req[h].pc = "forward"
    /\ LET r    == req[h]
           name == HookedStages[r.at]
           last == r.at = Len(HookedStages)
       IN  \/ /\ \E v \in (IF name = "conv5" THEN SampleActs ELSE { << >> }),
                    z \in (IF last THEN SampleLogits ELSE { << >> }) :
                    /\ activations' = AfterStage(activations, r.call, name, r.x, v)
                    /\ Step(h, [r EXCEPT !.pc = IF last THEN "post" ELSE "forward",
                                         !.at = @ + 1,
                                         !.x = StageOutput(r.call, name, r.x, v),
                                         !.output = z])
              /\ UNCHANGED bwdHooks
           \/ /\ name \in FailStages
              /\ ModelRaise(h, Failure("evaluation failed"))
              /\ UNCHANGED activations
    /\ UNCHANGED << instance, labels, fwdHooks, calls, accepted, serial, loadResult, fn >>

\* predict, lines 303-316: the predictions and dict(self.activations).
PredictReturn(h) ==
    /\ MayStep(h)
    /\ req[h].pc = "post"
    /\ req[h].ep \in PredictEndpoints
    /\ \E pol \in TiePolicies :
         LET res == PredictResult(req[h].output, labels, pol) IN
         Step(h, [req[h] EXCEPT !.pc = "render",
                     !.over = @ \/ calls > req[h].call,
                     !.ret = [NoReturn EXCEPT !.kind = "predict", !.best = res.best,
                                              !.top5 = res.top5, !.den = res.den,
                                              !.snap = activations]])
    /\ UNCHANGED << instance, labels, fwdHooks, bwdHooks, activations, calls,
                    accepted, serial, loadResult, fn >>

\* Faulty variant: "if not target_class", which takes class 0 for None.
TargetClass_falsy(tc, output) ==
    IF tc = {} \/ tc = {0} THEN ArgMax(output) ELSE CHOOSE t \in tc : TRUE

\* compute_gradcam, lines 349-350: if target_class is None:
\* target_class = output.argmax(dim=1).item()
TargetClass(tc, output) ==
    IF tc = {} THEN ArgMax(output) ELSE CHOOSE t \in tc : TRUE

\* compute_gradcam, lines 348-354: the target class and the backward pass.
\* The call's target_class argument (arg) is read here for the first time.
\* Indexing output[0, target_class] raises outside -NumClasses..NumClasses-1;
\* otherwise every attached backward hook fires, the call's own among them,
\* and that one appends grad_output[0].detach() to the call's own list.
Backward(h) ==
    /\ MayStep(h)
    /\ req[h].pc = "post"
    /\ req[h].ep \in GradcamEndpoints
    /\ \E arg \in TargetClasses :
         LET r == [req[h] EXCEPT !.arg = arg]
             target_class == TargetClass(arg, r.output)
         IN  IF target_class < 0 - NumClasses \/ target_class >= NumClasses
             THEN ModelRaise(h, Failure("index out of range"))
             ELSE /\ \E g \in SampleGrads :
                      Step(h, [r EXCEPT !.pc = "cam", !.tc = {target_class},
                                  !.gradients = IF r.call \in bwdHooks
                                                THEN Append(@, Tensor(r.call, "grad", g))
                                                ELSE @])
                  /\ UNCHANGED bwdHooks
    /\ UNCHANGED << instance, labels, fwdHooks, activations, calls, accepted,
                    serial, loadResult, fn >>

\* compute_gradcam, lines 356-381: the heatmap, handle.remove(), return.
GradcamReturn(h) ==
    /\ MayStep(h)
    /\ req[h].pc = "cam"
    /\ LET r == req[h] IN
       IF r.gradients = << >> \/ activations["conv5"] = Absent
       THEN ModelRaise(h, Failure("missing capture"))
       ELSE /\ bwdHooks' = bwdHooks \ {r.call}
            /\ Step(h, [r EXCEPT !.pc = "render",
                           !.over = @ \/ calls > r.call,
                           !.ret = [NoReturn EXCEPT !.kind = "gradcam",
                               !.cam = WeightedCam(
                                           ChannelWeights(r.gradients[1].val),
                                           activations["conv5"].val),
                               !.heat = GradCam(r.gradients[1].val,
                                                activations["conv5"].val),
                               !.used = r.tc]])
    /\ UNCHANGED << instance, labels, fwdHooks, activations, calls, accepted,
                    serial, loadResult, fn >>

\* The rest of the handler body: the renderings and the response.  The
\* activations handler answers 404 for a name that is not in the snapshot.
Render(h) ==
    /\ MayStep(h)
    /\ req[h].pc = "render"
    /\ LET r == req[h] IN
       IF r.ep = "activations"
       THEN \E name \in Names :
              IF name \notin Keys(r.ret.snap)
              THEN Step(h, [r EXCEPT !.pc = "done", !.name = name,
                               !.resp = Catch(r.ep, HTTPException(404, "Layer not found"))])
              ELSE Step(h, [r EXCEPT !.pc = "done", !.name = name,
                               !.resp = [status |-> 200, detail |-> << >>]])
       ELSE Step(h, [r EXCEPT !.pc = "done",
                        !.resp = [status |-> 200, detail |-> << >>]])
    /\ UNCHANGED << instance, labels, fwdHooks, bwdHooks, activations, calls,
                    accepted, serial, loadResult, fn >>

\* The response is sent and the request is over.
Close(h) ==
    /\ MayStep(h)
    /\ req[h].pc = "done"
    /\ req' = [req EXCEPT ![h] = IdleRequest]
    /\ loop' = NoHandler
    /\ UNCHANGED << instance, labels, fwdHooks, bwdHooks, activations, calls,
                    accepted, serial, switches, loadResult, fn >>

(***************************************************************************)
(* The service: one process, one event loop                                *)
(***************************************************************************)
Init ==
    /\ instance = 0
    /\ labels = << >>
    /\ fwdHooks = [n \in HookNames |-> 0]
    /\ bwdHooks = {}
    /\ activations = NoSnapshot
    /\ calls = 0
    /\ accepted = 0
    /\ loop = NoHandler
    /\ serial = TRUE
    /\ switches = 0
    /\ loadResult = ""
    /\ req = [h \in Handlers |-> IdleRequest]
    /\ fn = FnOff

Next ==
    \/ Startup
    \/ \E h \in Handlers :
         \/ Accept(h)
         \/ Open(h)
         \/ GetModel(h)
         \/ LayerInfo(h)
         \/ FilterWeights(h)
         \/ Call(h)
         \/ Preprocess(h)
         \/ Attach(h)
         \/ Forward(h)
         \/ PredictReturn(h)
         \/ Backward(h)
         \/ GradcamReturn(h)
         \/ Render(h)
         \/ Close(h)

Spec == Init /\ [][Next]_vars


\* The wrapper after construction, before its first call.
Constructed ==
    /\ instance = 1
    /\ loadResult = "URLError"
    /\ labels = load_imagenet_labels(loadResult)
    /\ fwdHooks = [n \in HookNames |-> 1]
    /\ bwdHooks = {}
    /\ activations = NoSnapshot
    /\ calls = 0
    /\ accepted = 0
    /\ loop = NoHandler
    /\ switches = 0
    /\ req = [h \in Handlers |-> IdleRequest]

\* A step that leaves the wrapper and the requests alone.
WrapperUnchanged ==
    UNCHANGED << instance, labels, fwdHooks, bwdHooks, activations, calls,
                 accepted, loop, serial, switches, loadResult, req >>


(***************************************************************************)
(* The wrapper called directly by two threads: predict and compute_gradcam *)
(* on the shared instance, without the service's event loop.  A running    *)
(* thread can be preempted between any two steps of a call, at most        *)
(* MaxSwitches times in one behaviour.                                      *)
(***************************************************************************)
Callers == {1, 2}

InitThreads ==
    /\ instance = 1
    /\ loadResult = "URLError"
    /\ labels = load_imagenet_labels(loadResult)
    /\ fwdHooks = [n \in HookNames |-> 1]
    /\ bwdHooks = {}
    /\ activations = NoSnapshot
    /\ calls = 0
    /\ accepted = 0
    /\ loop = NoHandler
    /\ serial = FALSE
    /\ switches = 0
    /\ req = [h \in Handlers |-> IdleRequest]
    /\ fn = FnOff

\* Thread h is about to call model.predict(image) or
\* model.compute_gradcam(image, target_class).
ThreadStart(h) ==
    /\ h \in Callers
    /\ MayStep(h)
    /\ req[h].pc = "idle"
    /\ \A g \in Callers : g < h => req[g].pc # "idle"
    /\ accepted < Cardinality(Callers)
    /\ accepted' = accepted + 1
    /\ \E ep \in {"predict", "gradcam"} :
         Step(h, [IdleRequest EXCEPT !.pc = "call", !.ep = ep, !.image = "ok"])
    /\ UNCHANGED << instance, labels, fwdHooks, bwdHooks, activations, calls,
                    serial, loadResult, fn >>

\* The call of thread h has returned or raised, and the thread drops the
\* result.
ThreadDone(h) ==
    /\ h \in Callers
    /\ MayStep(h)
    /\ req[h].pc \in {"render", "done"}
    /\ req' = [req EXCEPT ![h] = IdleRequest]
    /\ loop' = NoHandler
    /\ UNCHANGED << instance, labels, fwdHooks, bwdHooks, activations, calls,
                    accepted, serial, switches, loadResult, fn >>

NextThreads ==
    \E h \in Callers :
        \/ ThreadStart(h)
        \/ Call(h)
        \/ Preprocess(h)
        \/ Attach(h)
        \/ Forward(h)
        \/ PredictReturn(h)
        \/ Backward(h)
        \/ GradcamReturn(h)
        \/ ThreadDone(h)

SpecThreads == InitThreads /\ [][NextThreads]_vars

(***************************************************************************)
(* get_all_layer_names() called by one caller between its predict and      *)
(* compute_gradcam calls.  Every list a call returned is an object the     *)
(* caller owns and may change: fn.lists holds their present contents.       *)
(***************************************************************************)

\* Faulty variant: one list object is built on the first call and handed out by
\* every later call.
ListLayerNames_shared(lists) ==
    IF lists = << >>
    THEN [lists |-> << get_all_layer_names >>, ret |-> get_all_layer_names]
    ELSE [lists |-> lists, ret |-> lists[1]]

\* get_all_layer_names(): the list literal is evaluated on every call, so
\* the call returns a new list object.
ListLayerNames(lists) ==
    [lists |-> Append(lists, get_all_layer_names), ret |-> get_all_layer_names]

\* What the caller may do to a list it was given: names.clear(), or
\* names[0] = 'bogus'.
Mutations(names) ==
    { << >> } \cup (IF names = << >> THEN {} ELSE { [names EXCEPT ![1] = "bogus"] })

Caller == 1

InitNames ==
    /\ Constructed
    /\ serial = FALSE
    /\ fn = [pc |-> "names", lists |-> << >>, ncalls |-> 0, ret |-> << >>,
             first |-> << >>, changed |-> FALSE, evals |-> 0]

\* names = model.get_all_layer_names(), between two evaluations.  The call
\* records whether an earlier list had been changed and how many
\* evaluations had been made by then.
NamesCall ==
    /\ fn.pc = "names"
    /\ req[Caller].pc = "idle"
    /\ fn.ncalls < MaxLists
    /\ LET res == ListLayerNames(fn.lists) IN
         fn' = [fn EXCEPT !.lists = res.lists, !.ncalls = @ + 1, !.ret = res.ret,
                          !.first = IF fn.ncalls = 0 THEN res.ret ELSE @,
                          !.changed = \E i \in DOMAIN fn.lists :
                                          fn.lists[i] # get_all_layer_names,
                          !.evals = calls]
    /\ WrapperUnchanged

\* The caller changes a list an earlier call returned.
NamesMutate ==
    /\ fn.pc = "names"
    /\ req[Caller].pc = "idle"
    /\ \E i \in DOMAIN fn.lists : \E m \in Mutations(fn.lists[i]) :
          /\ m # fn.lists[i]
          /\ fn' = [fn EXCEPT !.lists[i] = m]
    /\ WrapperUnchanged

\* The caller's evaluations: the steps of predict and compute_gradcam.
NamesEvaluate ==
    /\ fn.pc = "names"
    /\ \/ ThreadStart(Caller)
       \/ Call(Caller)
       \/ Preprocess(Caller)
       \/ Attach(Caller)
       \/ Forward(Caller)
       \/ PredictReturn(Caller)
       \/ Backward(Caller)
       \/ GradcamReturn(Caller)
       \/ ThreadDone(Caller)

NextNames == NamesCall \/ NamesMutate \/ NamesEvaluate

SpecNames == InitNames /\ [][NextNames]_vars


(***************************************************************************)
(* predict's post-processing as a function of the network output           *)
(***************************************************************************)
LogitVectors == [1..NumClasses -> 0..MaxLogit]

InitPredict ==
    /\ instance = 1
    /\ \E outcome \in {"ok", "URLError"} :
         /\ loadResult = outcome
         /\ labels = load_imagenet_labels(outcome)
    /\ fwdHooks = [n \in HookNames |-> 1]
    /\ bwdHooks = {}
    /\ activations = NoSnapshot
    /\ calls = 0
    /\ accepted = 0
    /\ loop = NoHandler
    /\ serial = TRUE
    /\ switches = 0
    /\ req = [h \in Handlers |-> IdleRequest]
    /\ \E z \in LogitVectors : fn = [pc |-> "output", output |-> z]

\* predict, lines 303-316, on the drawn output.
PredictApply ==
    /\ fn.pc = "output"
    /\ \E pol \in TiePolicies :
         fn' = [pc |-> "predicted", output |-> fn.output,
                res |-> PredictResult(fn.output, labels, pol)]
    /\ UNCHANGED << instance, labels, fwdHooks, bwdHooks, activations, calls,
                    accepted, loop, serial, switches, loadResult, req >>

NextPredict == PredictApply

SpecPredict == InitPredict /\ [][NextPredict]_vars

(***************************************************************************)
(* compute_gradcam's numeric steps as functions of the captured gradient   *)
(* and the conv5 snapshot entry                                            *)
(***************************************************************************)
GradVals == {-1, 1}
ActVals  == {-1, 0, 1}

GradMaps == [Channels -> [Positions -> GradVals]]
ActMaps  == [Channels -> [Positions -> ActVals]]

InitGradcam ==
    /\ instance = 1
    /\ loadResult = "URLError"
    /\ labels = load_imagenet_labels(loadResult)
    /\ fwdHooks = [n \in HookNames |-> 1]
    /\ bwdHooks = {}
    /\ activations = NoSnapshot
    /\ calls = 0
    /\ accepted = 0
    /\ loop = NoHandler
    /\ serial = TRUE
    /\ switches = 0
    /\ req = [h \in Handlers |-> IdleRequest]
    /\ \E g \in GradMaps : fn = [pc |-> "gradient", gradient |-> g]

\* weights = gradient.mean(dim=(2, 3), keepdim=True)
CamWeights ==
    /\ fn.pc = "gradient"
    /\ fn' = [pc |-> "weights", gradient |-> fn.gradient,
              weights |-> ChannelWeights(fn.gradient)]
    /\ UNCHANGED << instance, labels, fwdHooks, bwdHooks, activations, calls,
                    accepted, loop, serial, switches, loadResult, req >>

\* cam = relu((weights * activation).sum(dim=1, keepdim=True))
CamSum ==
    /\ fn.pc = "weights"
    /\ \E a \in ActMaps :
         fn' = [pc |-> "cam", weights |-> fn.weights, activation |-> a,
                cam |-> WeightedCam(fn.weights, a)]
    /\ UNCHANGED << instance, labels, fwdHooks, bwdHooks, activations, calls,
                    accepted, loop, serial, switches, loadResult, req >>

\* cam = cam - cam.min(); if cam.max() > 0: cam = cam / cam.max()
CamNormalize ==
    /\ fn.pc = "cam"
    /\ fn' = [pc |-> "normalized", cam |-> fn.cam, norm |-> NormalizeCam(fn.cam)]
    /\ UNCHANGED << instance, labels, fwdHooks, bwdHooks, activations, calls,
                    accepted, loop, serial, switches, loadResult, req >>

\* cam = interpolate(cam, size=(224, 224), ...); return cam
CamResize ==
    /\ fn.pc = "normalized"
    /\ fn' = [pc |-> "heatmap", cam |-> fn.cam, norm |-> fn.norm,
              heat |-> Interpolate(fn.norm, InputSize)]
    /\ UNCHANGED << instance, labels, fwdHooks, bwdHooks, activations, calls,
                    accepted, loop, serial, switches, loadResult, req >>

NextGradcam == CamWeights \/ CamSum \/ CamNormalize \/ CamResize

SpecGradcam == InitGradcam /\ [][NextGradcam]_vars


(***************************************************************************)
(* utils.py: the rendering helpers as functions of drawn inputs            *)
(***************************************************************************)

\* ---- feature_maps_to_grid ----

\* One pixel of the grid: pixel (y, x) of the image of channel ch, or the
\* white background (np.ones(...) * 255).
TilePixel(ch, y, x) == [ch |-> ch, y |-> y, x |-> x]
Background == [ch |-> 0 - 1, y |-> 0, x |-> 0]

\* Faulty variant: the cells are laid out without the padding between them.
TileOrigin_no_padding(idx, grid_cols, height, width, padding) ==
    [y |-> (idx \div grid_cols) * height, x |-> (idx % grid_cols) * width]

\* feature_maps_to_grid, lines 84-88: row, col, y_start, x_start of tile idx.
TileOrigin(idx, grid_cols, height, width, padding) ==
    LET row == idx \div grid_cols
        col == idx % grid_cols
    IN  [y |-> row * (height + padding), x |-> col * (width + padding)]

\* grid[y_start:y_start + height, x_start:x_start + width] = feature_img
PlaceTile(grid, idx, o, height, width) ==
    [y \in DOMAIN grid |->
        [x \in DOMAIN grid[y] |->
            IF /\ o.y <= y /\ y < o.y + height
               /\ o.x <= x /\ x < o.x + width
            THEN TilePixel(idx, y - o.y, x - o.x)
            ELSE grid[y][x]]]

\* for idx in range(num_show): the tiles are written one after the other.
RECURSIVE FillGrid(_, _, _, _, _, _, _)
FillGrid(grid, idx, num_show, grid_cols, height, width, padding) ==
    IF idx >= num_show THEN grid
    ELSE FillGrid(PlaceTile(grid, idx,
                            TileOrigin(idx, grid_cols, height, width, padding),
                            height, width),
                  idx + 1, num_show, grid_cols, height, width, padding)

\* feature_maps_to_grid(activation, max_maps, grid_cols, padding) for an
\* activation of shape (num_channels, height, width).  Rows and columns of
\* the grid are numbered from 0.
feature_maps_to_grid(num_channels, height, width, max_maps, grid_cols, padding) ==
    LET num_show    == Min(num_channels, max_maps)
        grid_rows   == (num_show + grid_cols - 1) \div grid_cols
        grid_height == grid_rows * (height + padding) - padding
        grid_width  == grid_cols * (width + padding) - padding
        grid == [y \in 0..(grid_height - 1) |->
                    [x \in 0..(grid_width - 1) |-> Background]]
    IN  FillGrid(grid, 0, num_show, grid_cols, height, width, padding)

\* Arguments of feature_maps_to_grid: 16 is the default of max_maps and the
\* value create_activation_visualization passes, 4 and 2 are the defaults
\* of grid_cols and padding.
MaxMapsArgs  == {1, 3, 16}
GridColsArgs == {1, 3, 4}
PaddingArgs  == {0, 2}

InitGrid ==
    /\ Constructed
    /\ serial = TRUE
    /\ \E c \in 1..MaxChannels, hh \in 1..MaxTile, ww \in 1..MaxTile,
          mm \in MaxMapsArgs, gc \in GridColsArgs, pd \in PaddingArgs :
          fn = [pc |-> "activation", num_channels |-> c, height |-> hh,
                width |-> ww, max_maps |-> mm, grid_cols |-> gc, padding |-> pd]

\* grid = feature_maps_to_grid(activation, max_maps, grid_cols, padding)
GridApply ==
    /\ fn.pc = "activation"
    /\ fn' = [fn EXCEPT !.pc = "grid"] @@
             [grid |-> feature_maps_to_grid(fn.num_channels, fn.height, fn.width,
                                            fn.max_maps, fn.grid_cols, fn.padding)]
    /\ WrapperUnchanged

NextGrid == GridApply

SpecGrid == InitGrid /\ [][NextGrid]_vars

\* ---- resize_image_for_preview ----

\* Image.resize(size, LANCZOS): Pillow raises ValueError("height and width
\* must be > 0") for a size with a dimension below 1.
ImageResize(width, height) ==
    IF width < 1 \/ height < 1
    THEN [raised |-> "height and width must be > 0", width |-> 0, height |-> 0]
    ELSE [raised |-> "", width |-> width, height |-> height]

\* resize_image_for_preview(image, max_size) for an image of the given
\* size.  ratio = min(max_size / width, max_size / height) is max_size over
\* the larger dimension, and int() truncates; the arithmetic is exact here.
resize_image_for_preview(width, height, max_size) ==
    LET larger == Max(width, height)
    IN  IF max_size < larger
        THEN ImageResize((width * max_size) \div larger,
                         (height * max_size) \div larger)
        ELSE [raised |-> "", width |-> width, height |-> height]

InitResize ==
    /\ Constructed
    /\ serial = TRUE
    /\ \E w \in 1..MaxDim, hh \in 1..MaxDim, m \in 1..MaxDim :
          fn = [pc |-> "image", width |-> w, height |-> hh, max_size |-> m]

\* preview_image = resize_image_for_preview(image, max_size)
ResizeApply ==
    /\ fn.pc = "image"
    /\ fn' = [fn EXCEPT !.pc = "resized"] @@
             [out |-> resize_image_for_preview(fn.width, fn.height, fn.max_size)]
    /\ WrapperUnchanged

NextResize == ResizeApply

SpecResize == InitResize /\ [][NextResize]_vars

\* ---- base64_to_pil ----

\* The characters of a text: the separator ',', a character of a data-URL
\* prefix that is outside the base64 alphabet, and two base64 characters.
Chars == {",", ":", "A", "B"}

RECURSIVE Texts(_)
Texts(n) ==
    IF n = 0 THEN { << >> }
    ELSE Texts(n - 1) \cup { Append(t, c) : t \in Texts(n - 1), c \in Chars }

\* The position of the first sep in s (0 when there is none).
Find(s, sep) ==
    IF \E i \in DOMAIN s : s[i] = sep
    THEN CHOOSE i \in DOMAIN s : s[i] = sep /\ \A j \in 1..(i - 1) : s[j] # sep
    ELSE 0

\* str.split(sep): the pieces between the separators, in order.
RECURSIVE Split(_, _)
Split(s, sep) ==
    LET k == Find(s, sep)
    IN  IF k = 0 THEN << s >>
        ELSE << SubSeq(s, 1, k - 1) >> \o Split(SubSeq(s, k + 1, Len(s)), sep)

\* base64.b64decode(s) with validate=False: the characters outside the
\* base64 alphabet are discarded before the rest is decoded.
b64decode(s) == SelectSeq(s, LAMBDA c : c \in {"A", "B"})

\* base64_to_pil, lines 153-156: the text handed to b64decode, and what is
\* decoded from it.
base64_to_pil(base64_str) ==
    LET payload == IF Find(base64_str, ",") # 0
                   THEN Split(base64_str, ",")[2]
                   ELSE base64_str
    IN  [payload |-> payload, image_data |-> b64decode(payload)]

InitDecode ==
    /\ Constructed
    /\ serial = TRUE
    /\ \E t \in Texts(MaxText) : fn = [pc |-> "text", base64_str |-> t]

\* image = base64_to_pil(image_b64)
DecodeApply ==
    /\ fn.pc = "text"
    /\ fn' = [pc |-> "decoded", base64_str |-> fn.base64_str,
              out |-> base64_to_pil(fn.base64_str)]
    /\ WrapperUnchanged

NextDecode == DecodeApply

SpecDecode == InitDecode /\ [][NextDecode]_vars

\* ---- create_gradcam_overlay ----

\* alpha as a pair <<numerator, denominator>>: the handlers pass the
\* request's alpha on unchecked, so the values go from -1/2 to 2.
Alphas == { <<a, 2>> : a \in (0 - 1)..4 }

\* Channel values of a pixel of the resized original and of the colorized
\* heatmap (uint8).
PixelVals == {0, 1, 128, 254, 255}

\* How the build converts a float outside 0..255 to uint8: the conversion
\* is undefined in C; x86 builds keep the low byte, others saturate.
Casts == {"wrap", "saturate"}

\* ndarray.astype(np.uint8) of num / den: truncation toward zero, then the
\* conversion to 8 bits.
astype_uint8(num, den, cast) ==
    LET t == IF num >= 0 THEN num \div den ELSE 0 - ((0 - num) \div den)
    IN  IF 0 <= t /\ t <= 255 THEN t
        ELSE IF cast = "wrap" THEN t % 256
        ELSE IF t < 0 THEN 0 ELSE 255

\* create_gradcam_overlay, line 306, for one channel of one pixel:
\* (alpha * heatmap_colored + (1 - alpha) * original_np).astype(np.uint8)
create_gradcam_overlay(original, heatmap_colored, alpha, cast) ==
    astype_uint8(alpha[1] * heatmap_colored + (alpha[2] - alpha[1]) * original,
                 alpha[2], cast)

InitOverlay ==
    /\ Constructed
    /\ serial = TRUE
    /\ \E o \in PixelVals, hc \in PixelVals, al \in Alphas :
          fn = [pc |-> "heatmap_colored", original |-> o,
                heatmap_colored |-> hc, alpha |-> al]

\* overlay_image = create_gradcam_overlay(image, heatmap, alpha)
OverlayApply ==
    /\ fn.pc = "heatmap_colored"
    /\ \E cast \in Casts :
         fn' = [fn EXCEPT !.pc = "overlay"] @@
               [overlay |-> create_gradcam_overlay(fn.original, fn.heatmap_colored,
                                                   fn.alpha, cast)]
    /\ WrapperUnchanged

NextOverlay == OverlayApply

SpecOverlay == InitOverlay /\ [][NextOverlay]_vars

\* ---- tensor_to_image ----

\* Faulty variant: the division by the maximum without the subtraction of the
\* minimum.
tensor_to_image_no_shift(tensor) ==
    IF MaxSeq(tensor) > 0
    THEN [p \in DOMAIN tensor |->
             astype_uint8(tensor[p] * 255, MaxSeq(tensor), "wrap")]
    ELSE [p \in DOMAIN tensor |-> astype_uint8(tensor[p] * 255, 1, "wrap")]

\* tensor_to_image(tensor, normalize=True): img - img.min(), divided by
\* img.max() when that is positive, times 255, astype(np.uint8).  The map
\* is a sequence of its entries; the arithmetic is exact.
tensor_to_image(tensor) ==
    LET img == [p \in DOMAIN tensor |-> tensor[p] - MinSeq(tensor)]
    IN  IF MaxSeq(img) > 0
        THEN [p \in DOMAIN img |-> astype_uint8(img[p] * 255, MaxSeq(img), "wrap")]
        ELSE [p \in DOMAIN img |-> astype_uint8(img[p] * 255, 1, "wrap")]

InitNormalize ==
    /\ Constructed
    /\ serial = TRUE
    /\ \E t \in [Positions -> (0 - MaxVal)..MaxVal] :
          fn = [pc |-> "tensor", tensor |-> t]

\* feature_img = tensor_to_image(activation[idx])
NormalizeApply ==
    /\ fn.pc = "tensor"
    /\ fn' = [pc |-> "img", tensor |-> fn.tensor, img |-> tensor_to_image(fn.tensor)]
    /\ WrapperUnchanged

NextNormalize == NormalizeApply

SpecNormalize == InitNormalize /\ [][NextNormalize]_vars


(***************************************************************************)
(* Properties                                                              *)
(***************************************************************************)

\* C1: while a predict call is in progress and when it returns, the
\* instance's snapshot mapping and the returned snapshot hold only entries
\* captured by that call: predict empties the mapping first, so no entry of
\* an earlier call (finished or failed part-way) is left in it.
C1_SnapshotOwnEntries ==
    \A h \in Handlers :
        /\ (req[h].pc \in EvalPcs /\ req[h].ep \in PredictEndpoints)
              => \A n \in Keys(activations) : activations[n].call = req[h].call
        /\ req[h].ret.kind = "predict"
              => \A n \in Keys(req[h].ret.snap) :
                     req[h].ret.snap[n].call = req[h].call

\* C1 witness: a predict call returned its snapshot after an earlier
\* compute_gradcam call on the same instance had failed part-way.
C1_Witness ==
    \E h \in Handlers :
        /\ req[h].ret.kind = "predict"
        /\ req[h].call >= 2
        /\ Keys(req[h].ret.snap) # {}
        /\ bwdHooks # {}

\* C2: whenever no evaluation is in progress, no gradient-capture hook is
\* attached to the conv5 stage, whether the last compute_gradcam call
\* returned or raised.
C2_NoHookBetweenCalls == (InFlight = {}) => (bwdHooks = {})

\* C3: the keys of the instance's snapshot mapping and of every snapshot
\* returned by predict are names listed by get_all_layer_names().
C3_KeysAreLayerNames ==
    /\ Keys(activations) \subseteq LayerNames
    /\ \A h \in Handlers : Keys(req[h].ret.snap) \subseteq LayerNames

\* C4: the snapshot a predict call returns has an entry for every name of
\* get_all_layer_names(), and the activations handler never answers 404
\* for a listed name.
C4_SnapshotHasEveryLayer ==
    \A h \in Handlers :
        /\ req[h].ret.kind = "predict" => LayerNames \subseteq Keys(req[h].ret.snap)
        /\ (/\ req[h].pc = "done"
            /\ req[h].ep = "activations"
            /\ req[h].ret.kind = "predict"
            /\ req[h].name \in LayerNames) => req[h].resp.status # 404

HeatInRange(heat) ==
    /\ Len(heat.num) = InputSize
    /\ \A k \in DOMAIN heat.num : 0 <= heat.num[k] /\ heat.num[k] <= heat.den

\* C5 as stated: the returned heatmap lies in [0,1] and holds an entry
\* equal to 1, unless the clamped map was uniformly zero, and then it is
\* all zero.
C5_HeatmapHoldsOne ==
    fn.pc = "heatmap" =>
        /\ HeatInRange(fn.heat)
        /\ IF \A p \in DOMAIN fn.cam : fn.cam[p] = 0
           THEN \A k \in DOMAIN fn.heat.num : fn.heat.num[k] = 0
           ELSE \E k \in DOMAIN fn.heat.num : fn.heat.num[k] = fn.heat.den

\* C5 amended: the returned heatmap lies in [0,1]; it is all zero when the
\* clamped map is constant (uniformly zero or uniformly any other value);
\* otherwise the normalized map holds an entry equal to 1 before the resize
\* and the returned map is not all zero.
C5_HeatmapRange ==
    fn.pc = "heatmap" =>
        /\ HeatInRange(fn.heat)
        /\ IF \A p, q \in DOMAIN fn.cam : fn.cam[p] = fn.cam[q]
           THEN \A k \in DOMAIN fn.heat.num : fn.heat.num[k] = 0
           ELSE /\ \E p \in DOMAIN fn.norm.num : fn.norm.num[p] = fn.norm.den
                /\ \A p \in DOMAIN fn.norm.num :
                       0 <= fn.norm.num[p] /\ fn.norm.num[p] <= fn.norm.den
                /\ \E k \in DOMAIN fn.heat.num : fn.heat.num[k] > 0

\* C5 witness: a heatmap of a map that is not constant, with every entry
\* below 1 after the resize.
C5_Witness ==
    /\ fn.pc = "heatmap"
    /\ \E p, q \in DOMAIN fn.cam : fn.cam[p] # fn.cam[q]
    /\ \A k \in DOMAIN fn.heat.num : fn.heat.num[k] < fn.heat.den

\* C6: predict returns exactly 5 pairs, in descending order of probability,
\* every probability in [0,1]; they are the 5 most probable classes, each
\* with its own label and probability, and the best class is the label of
\* the first pair.
C6_TopFive ==
    fn.pc = "predicted" =>
        LET top5 == fn.res.top5
            chosen == { top5[n].idx : n \in DOMAIN top5 }
        IN  /\ Len(top5) = 5
            /\ Cardinality(chosen) = 5
            /\ chosen \subseteq Classes
            /\ \A n \in DOMAIN top5 :
                  /\ 0 <= top5[n].prob /\ top5[n].prob <= fn.res.den
                  /\ top5[n].prob = fn.res.probs[top5[n].idx + 1]
                  /\ top5[n].label = labels[top5[n].idx + 1]
                  /\ n > 1 => top5[n - 1].prob >= top5[n].prob
                  /\ \A j \in Classes \ chosen : fn.res.probs[j + 1] <= top5[n].prob
            /\ fn.res.den = SumSeq(fn.res.probs)
            /\ fn.res.best = top5[1].label

\* C6 witness: a prediction whose first pair is strictly more probable than
\* its last pair and than a class left out.
C6_Witness ==
    /\ fn.pc = "predicted"
    /\ fn.res.top5[1].prob > fn.res.top5[5].prob
    /\ \E j \in Classes : /\ \A n \in DOMAIN fn.res.top5 : fn.res.top5[n].idx # j
                          /\ fn.res.probs[j + 1] < fn.res.top5[1].prob

\* C7: GET /layers/{name} finds a descriptor exactly for the names listed
\* by get_all_layer_names(): 200 with a non-empty descriptor for a listed
\* name, 404 for every other string.
C7_DescriptorExactlyForListed ==
    \A h \in Handlers :
        (req[h].pc = "done" /\ req[h].ep = "layer_info") =>
            IF req[h].name \in LayerNames
            THEN req[h].resp.status = 200 /\ req[h].resp.detail # Empty
            ELSE req[h].resp.status = 404

\* C7 amended: GET /layers/{name} finds a non-empty descriptor for every
\* name listed by get_all_layer_names() and for "flatten", and answers 404
\* for every other string; the lookup itself raises nothing.
C7_DescriptorForListedAndFlatten ==
    \A h \in Handlers :
        (req[h].pc = "done" /\ req[h].ep = "layer_info") =>
            /\ req[h].raisedIn = ""
            /\ IF req[h].name \in LayerNames \cup {"flatten"}
               THEN /\ req[h].resp.status = 200
                    /\ req[h].resp.detail # Empty
                    /\ req[h].resp.detail = get_layer_info(req[h].name)
               ELSE /\ req[h].resp.status = 404
                    /\ get_layer_info(req[h].name) = Empty

\* C7 witness: the descriptor of "flatten", which is not a listed name, was
\* served.
C7_Witness ==
    \E h \in Handlers :
        /\ req[h].pc = "done"
        /\ req[h].ep = "layer_info"
        /\ req[h].name = "flatten"
        /\ req[h].name \notin LayerNames
        /\ req[h].resp.status = 200

ConvNames == {"conv1", "conv2", "conv3", "conv4", "conv5"}

\* C8: GET /filters/{name} answers 200 with the weights exactly for conv1
\* .. conv5, and 404 (not 500) for every other name, classifier stages
\* included.
C8_FilterWeightsOr404 ==
    \A h \in Handlers :
        (req[h].pc = "done" /\ req[h].ep = "filters") =>
            /\ (get_filter_weights(req[h].name) # Empty) <=> (req[h].name \in ConvNames)
            /\ IF req[h].name \in ConvNames
               THEN /\ req[h].resp.status = 200
                    /\ req[h].resp.detail = get_filter_weights(req[h].name)
               ELSE req[h].resp.status = 404

\* C8 witness: the filters handler answered 404 for the classifier stage fc6.
C8_Witness ==
    \E h \in Handlers :
        /\ req[h].pc = "done"
        /\ req[h].ep = "filters"
        /\ req[h].name = "fc6"
        /\ req[h].resp.status = 404

\* C9: a failure raised by the model call ends the request with status 500
\* and the failure's message, after exactly one model call and without a
\* result; no handler calls the model twice for one request.
C9_FailureIs500 ==
    \A h \in Handlers :
        /\ req[h].ncalls <= 1
        /\ (req[h].pc = "done" /\ req[h].raisedIn = "model") =>
              /\ req[h].resp = [status |-> 500, detail |-> << req[h].raised >>]
              /\ req[h].ncalls = 1
              /\ req[h].ret = NoReturn

\* C9 witness: compute_gradcam raised on an out-of-range target class and
\* the handler answered.
C9_Witness ==
    \E h \in Handlers :
        /\ req[h].pc = "done"
        /\ req[h].raisedIn = "model"
        /\ req[h].ep \in GradcamEndpoints
        /\ req[h].raised = "index out of range"

\* C10: at most one evaluation is in progress on the shared instance.
C10_OneEvaluationInFlight == Cardinality(InFlight) <= 1

\* C10 witness: an evaluation is in progress while another request is open.
C10_Witness ==
    \E h, g \in Handlers :
        /\ h # g
        /\ req[h].pc = "forward"
        /\ req[g].pc = "read"

\* A returned snapshot that misses an entry of a hooked stage, or holds an
\* entry captured by another call.
Corrupted(h) ==
    /\ req[h].ret.kind = "predict"
    /\ \/ Keys(req[h].ret.snap) # HookNames
       \/ \E n \in Keys(req[h].ret.snap) : req[h].ret.snap[n].call # req[h].call

\* C11: the wrapper is not reentrant.  A snapshot returned by predict misses
\* entries or holds entries of another call only when the call overlapped
\* with another evaluation on the same instance (another evaluation was in
\* progress at its clear, or cleared before its return); and such a
\* snapshot is reachable (C11_Witness).
C11_CorruptionOnlyByOverlap ==
    \A h \in Handlers : Corrupted(h) => req[h].over

\* C11 witness: of two overlapping calls, one returned a snapshot that
\* holds an entry captured by the other call and misses other entries.
C11_Witness ==
    \E h \in Handlers :
        /\ Corrupted(h)
        /\ req[h].over
        /\ \E n \in Keys(req[h].ret.snap) : req[h].ret.snap[n].call # req[h].call
        /\ Keys(req[h].ret.snap) # HookNames

PastGetModel == {"lookup", "call", "render"} \cup EvalPcs

\* C12: get_model() creates the wrapper at most once per process: there is
\* never a second instance, every request that has called get_model() works
\* on the one instance, and every hooked stage carries exactly one
\* activation hook.
C12_OneInstance ==
    /\ instance <= 1
    /\ \A n \in HookNames : fwdHooks[n] = instance
    /\ \A h \in Handlers : req[h].pc \in PastGetModel => instance = 1

\* C12 witness: the second request of the process has called get_model().
C12_Witness ==
    /\ accepted = 2
    /\ instance = 1
    /\ \E h \in Handlers : req[h].pc = "call"
    /\ \E n \in HookNames : fwdHooks[n] = 1

\* C13: when loading the label list fails, initialization completes and the
\* label list is exactly the placeholders class_0 .. class_(NumClasses-1),
\* one for every class index.
C13_FallbackLabels ==
    /\ loadResult # "" => instance = 1 /\ Len(labels) = NumClasses
    /\ loadResult \notin {"", "ok"} =>
           /\ DOMAIN labels = { i + 1 : i \in Classes }
           /\ \A i \in Classes : labels[i + 1] = <<"class_", i>>

\* C13 witness: after a failed download a predict call returned a
\* placeholder as the label of the best class.
C13_Witness ==
    /\ loadResult = "UnicodeDecodeError"
    /\ \E h \in Handlers :
          /\ req[h].ret.kind = "predict"
          /\ req[h].ret.best[1] = "class_"

\* The class index a returned compute_gradcam call reports.
UsedClass(h) == CHOOSE u \in req[h].ret.used : TRUE

UniqueMax(z) == \E i \in DOMAIN z : \A j \in DOMAIN z \ {i} : z[j] < z[i]

TilesIn(grid) ==
    { grid[p[1]][p[2]].ch : p \in (DOMAIN grid) \X (DOMAIN grid[0]) }
        \ {Background.ch}

\* The grid positions that show pixels of channel i.
PixelsOf(grid, i) ==
    { p \in (DOMAIN grid) \X (DOMAIN grid[0]) : grid[p[1]][p[2]].ch = i }

\* C15: the grid holds exactly min(channel_count, max_maps) tiles; channel
\* i is at grid row i div columns and column i mod columns, the cells
\* padding pixels apart; every pixel of every placed channel is shown once
\* (no tile covers another), every other pixel is background, channels
\* beyond max_maps are left out, and for max_maps = 16 the grid holds 16
\* tiles for every channel count above 16.
C15_GridTiles ==
    fn.pc = "grid" =>
        LET n    == IF fn.num_channels < fn.max_maps THEN fn.num_channels
                    ELSE fn.max_maps
            cell == [y |-> fn.height + fn.padding, x |-> fn.width + fn.padding]
        IN  /\ TilesIn(fn.grid) = 0..(n - 1)
            /\ Cardinality(TilesIn(fn.grid)) = n
            /\ \A i \in 0..(n - 1) :
                  /\ \A dy \in 0..(fn.height - 1), dx \in 0..(fn.width - 1) :
                        fn.grid[(i \div fn.grid_cols) * cell.y + dy]
                               [(i % fn.grid_cols) * cell.x + dx]
                            = TilePixel(i, dy, dx)
                  /\ Cardinality(PixelsOf(fn.grid, i)) = fn.height * fn.width
            /\ \A y \in DOMAIN fn.grid : \A x \in DOMAIN fn.grid[y] :
                  \/ fn.grid[y][x] = Background
                  \/ /\ y % cell.y < fn.height
                     /\ x % cell.x < fn.width
                     /\ (y \div cell.y) * fn.grid_cols + (x \div cell.x) < n
            /\ (fn.max_maps = 16 /\ fn.num_channels > 16) =>
                  Cardinality(TilesIn(fn.grid)) = 16

\* C15 witness: a map of more than 16 channels tiled with max_maps = 16
\* into 4 columns with padding 2 shows 16 tiles.
C15_Witness ==
    /\ fn.pc = "grid"
    /\ fn.num_channels > 16
    /\ fn.max_maps = 16
    /\ fn.grid_cols = 4
    /\ fn.padding = 2
    /\ Cardinality(TilesIn(fn.grid)) = 16
    /\ \E y \in DOMAIN fn.grid : fn.grid[y][0] = Background

\* C16: the preview resize never scales up and always returns an image: no
\* dimension above max_size, both dimensions scaled by max_size over the
\* larger dimension when that is below 1, and the image itself otherwise.
C16_ResizeWithinBounds ==
    fn.pc = "resized" =>
        LET larger == IF fn.width >= fn.height THEN fn.width ELSE fn.height
        IN  /\ fn.out.raised = ""
            /\ fn.out.width <= fn.max_size /\ fn.out.height <= fn.max_size
            /\ fn.out.width <= fn.width /\ fn.out.height <= fn.height
            /\ IF fn.max_size < larger
               THEN /\ fn.out.width = (fn.width * fn.max_size) \div larger
                    /\ fn.out.height = (fn.height * fn.max_size) \div larger
               ELSE /\ fn.out.width = fn.width
                    /\ fn.out.height = fn.height

\* C17: the payload that is decoded is the whole text when it holds no
\* separator, and otherwise everything after the first separator.
C17_PayloadAfterFirstSeparator ==
    fn.pc = "decoded" =>
        LET t == fn.base64_str
            seps == { i \in DOMAIN t : t[i] = "," }
        IN  IF seps = {}
            THEN fn.out.payload = t
            ELSE LET first == CHOOSE i \in seps : \A j \in seps : i <= j
                 IN  fn.out.payload = SubSeq(t, first + 1, Len(t))

\* C18: for every alpha a request can carry, the overlay is
\* alpha * heatmap + (1 - alpha) * original, clamped to 0..255.
C18_OverlayClamped ==
    fn.pc = "overlay" =>
        LET num == fn.alpha[1] * fn.heatmap_colored
                     + (fn.alpha[2] - fn.alpha[1]) * fn.original
            t   == IF num >= 0 THEN num \div fn.alpha[2]
                   ELSE 0 - ((0 - num) \div fn.alpha[2])
        IN  fn.overlay = (IF t < 0 THEN 0 ELSE IF t > 255 THEN 255 ELSE t)

\* C19: tensor_to_image maps the minimum of a map that is not constant to
\* 0 and its maximum to 255, every entry into 0..255 in the order of the
\* entries, and a constant map of any value to a uniform image.
C19_MinMaxNormalize ==
    fn.pc = "img" =>
        LET t == fn.tensor
            img == fn.img
        IN  /\ DOMAIN img = DOMAIN t
            /\ \A p \in DOMAIN t : 0 <= img[p] /\ img[p] <= 255
            /\ \A p, q \in DOMAIN t : t[p] <= t[q] => img[p] <= img[q]
            /\ IF \E p, q \in DOMAIN t : t[p] # t[q]
               THEN \A p \in DOMAIN t :
                      /\ (\A q \in DOMAIN t : t[p] <= t[q]) => img[p] = 0
                      /\ (\A q \in DOMAIN t : t[q] <= t[p]) => img[p] = 255
               ELSE \A p, q \in DOMAIN t : img[p] = img[q]

\* C19 witness: the image of a map with negative entries that is not
\* constant holds 0, 255 and a value in between.
C19_Witness ==
    /\ fn.pc = "img"
    /\ \E p \in DOMAIN fn.tensor : fn.tensor[p] < 0
    /\ \E p, q, r \in DOMAIN fn.img :
          /\ fn.img[p] = 0
          /\ 0 < fn.img[q] /\ fn.img[q] < 255
          /\ fn.img[r] = 255

\* C20: every call of get_all_layer_names() returns the same fixed ordered
\* sequence, whatever evaluations were made in between and whatever the
\* caller did to the lists returned before.
C20_SameNamesEveryCall ==
    (fn.pc = "names" /\ fn.ncalls > 0) =>
        /\ fn.ret = fn.first
        /\ fn.ret = get_all_layer_names
        /\ Len(fn.ret) = 19
        /\ fn.ret[1] = "conv1" /\ fn.ret[19] = "softmax"

\* C20 witness: a call of get_all_layer_names() made after an evaluation
\* and after the caller had changed the list of an earlier call.
C20_Witness ==
    /\ fn.pc = "names"
    /\ fn.ncalls >= 2
    /\ fn.changed
    /\ fn.evals >= 1
    /\ fn.ret = get_all_layer_names

\* C21: before normalization the map compute_gradcam builds is, at every
\* position, max(0, sum over the channels of w_c * A_c[position]), with w_c
\* the spatial mean of the gradient this call's backward pass captured and
\* A the conv5 entry this call's forward pass captured (units of 1/CamW).
C21_CamFromOwnCaptures ==
    \A h \in Handlers :
        req[h].ret.kind = "gradcam" =>
            LET g == req[h].gradients[1]
                A == activations["conv5"]
                raw(p) == SumSeq([c \in Channels |->
                                     SumSeq(g.val[c]) * A.val[c][p]])
            IN  /\ Len(req[h].gradients) = 1
                /\ g.call = req[h].call
                /\ A.call = req[h].call
                /\ DOMAIN req[h].ret.cam = Positions
                /\ \A p \in Positions :
                      req[h].ret.cam[p] = (IF raw(p) > 0 THEN raw(p) ELSE 0)

\* C21 witness: compute_gradcam returned a map with a positive entry in a
\* call made after an earlier call had failed and left its hook attached.
C21_Witness ==
    \E h \in Handlers :
        /\ req[h].ret.kind = "gradcam"
        /\ req[h].call >= 2
        /\ \E c \in bwdHooks : c < req[h].call
        /\ \E p \in Positions : req[h].ret.cam[p] > 0

\* C22: a POST to /predict/base64 or /gradcam/base64 without an image is
\* answered with status 400 and detail 'No image provided', and the model is
\* not called.
C22_MissingImageIs400 ==
    \A h \in Handlers :
        (/\ req[h].pc = "done"
         /\ req[h].ep \in Base64Endpoints
         /\ req[h].image = "missing") =>
            /\ req[h].resp.status = 400
            /\ req[h].resp.detail = << "No image provided" >>
            /\ req[h].ncalls = 0

\* C23: whenever compute_gradcam returns, the class it reports lies in
\* 0..NumClasses-1; a supplied target_class outside that range never
\* yields a result.
C23_UsedClassIsValidIndex ==
    \A h \in Handlers :
        req[h].ret.kind = "gradcam" =>
            /\ req[h].ret.used \subseteq Classes
            /\ req[h].arg \subseteq Classes

\* C24: a snapshot entry holds the output of the stage it is stored under,
\* also after the later stages of the evaluation ran: the entry of a
\* convolution or linear stage is not overwritten by the in-place
\* activation stage that follows it.
C24_EntryHoldsOwnStageOutput ==
    /\ \A n \in Keys(activations) : activations[n].content = n
    /\ \A h \in Handlers :
          \A n \in Keys(req[h].ret.snap) : req[h].ret.snap[n].content = n

====
